---------------------------- MODULE Spec2Model ----------------------------
(***************************************************************************)
(* Model of src/app/ui/services/autocompleteSyncModel.js: the per-message  *)
(* recipient cache (CACHE), the lookup extendFromCache and the asynchronous *)
(* operation sync, cut at every await on an external collaborator.         *)
(*                                                                         *)
(* A record of the program ({Address, Name, ...}) is a function from field *)
(* names to values whose domain is the set of fields the object carries;   *)
(* the object spread {...a, ...b} is Spread(a, b).  CACHE is a function    *)
(* from the addresses that are own properties of the object to records.    *)
(***************************************************************************)
EXTENDS Naturals, Sequences, FiniteSets

(* ------------------------------ bounds -------------------------------- *)

\* longest list of emails handed to one sync call
MaxEmails == 2
\* longest list handed to one extendFromCache call
MaxLookup == 1
\* number of call slots of sync (the calls that may be pending at once)
NumSyncs == 2

(* ------------------------------ values -------------------------------- *)

\* "a@x.com" matches REGEX_EMAIL; "constructor" does not, and it names a
\* property every plain object inherits from Object.prototype.
Addr == {"a@x.com", "constructor"}

\* Names of the properties a plain object ({}) inherits from
\* Object.prototype, among the addresses of the model.  CACHE[name] yields
\* the inherited function for them when CACHE has no own property `name`.
ObjectPrototypeKeys == {"constructor"}

\* The messages the factory (line 57) is called for: "m1" is the message the
\* calls of Spec are about, "m2" another message composed at the same time.
Messages == {"m1", "m2"}

Procs == 1..NumSyncs

Range(s) == {s[i] : i \in DOMAIN s}

\* the object with no own enumerable property
EmptyObject == [f \in {} |-> TRUE]

\* {...a, ...b}: the fields of both, b's value where both carry the field
Spread(a, b) ==
    [f \in (DOMAIN a) \cup (DOMAIN b) |-> IF f \in DOMAIN b THEN b[f] ELSE a[f]]

\* the recipient records callers hand to sync
SyncRecords ==
    {[Address |-> a] : a \in Addr}
      \cup {[Address |-> "a@x.com", loadCryptInfo |-> TRUE]}

\* the recipient records callers hand to extendFromCache
LookupRecords ==
    {[Address |-> a] : a \in Addr}
      \cup {[Address |-> a, Name |-> "Ann", loadCryptInfo |-> FALSE] : a \in Addr}

SeqsUpTo(S, n) == UNION {[1..k -> S] : k \in 0..n}

SyncInputs == SeqsUpTo(SyncRecords, MaxEmails)

LookupInputs == SeqsUpTo(LookupRecords, MaxLookup)

\* a preference record of the preference service
PreferenceRecords == [primaryPinned : BOOLEAN, isVerified : BOOLEAN]

(* -------------------- collaborators outside src/ ---------------------- *)

\* REGEX_EMAIL.test(Address) (../../constants)
RegexEmailTest(a) == a = "a@x.com"

\* extendPGP(email, sendPref) (helpers/composerIconHelper): passes the
\* record's own fields through and attaches the encryption metadata of the
\* address's preference record, of which the model keeps whether there was a
\* preference record to take it from.  pref is the set of the record, empty
\* when sendPref is undefined.
extendPGP(email, pref) == Spread(email, [pgp |-> pref # {}])

(* --------------------------- pure helpers ----------------------------- *)

\* _.map(emails, 'Address')
Addresses(emails) == [i \in DOMAIN emails |-> emails[i].Address]

\* A PreferenceMap is the sequence of its [adr, record] pairs in key order
\* (_.toPairs), the addresses pairwise distinct.
Keys(map) == [i \in DOMAIN map |-> map[i][1]]

\* sendPreferencesMap[address]: the set of the address's record, empty when
\* the address is no key (undefined)
Pref(map, a) == {map[i][2] : i \in {j \in DOMAIN map : map[j][1] = a}}

\* the first occurrences of the elements of xs, in order (the keys of an
\* object filled by walking xs)
RECURSIVE Uniq(_)
Uniq(xs) ==
    IF xs = <<>> THEN <<>>
    ELSE <<Head(xs)>> \o SelectSeq(Uniq(Tail(xs)), LAMBDA x : x # Head(xs))

\* the subsequences of xs
RECURSIVE SubSeqs(_)
SubSeqs(xs) ==
    IF xs = <<>> THEN {<<>>}
    ELSE SubSeqs(Tail(xs)) \cup {<<Head(xs)>> \o t : t \in SubSeqs(Tail(xs))}

\* the maps sendPreferences.get may resolve to for the requested addresses:
\* any of them may be missing (its fetch failed), the keys stand in the order
\* of the request, with any flags
PreferenceMaps(addresses) ==
    UNION {{m \in [DOMAIN ks -> Addr \X PreferenceRecords] :
               \A i \in DOMAIN ks : m[i][1] = ks[i]} : ks \in SubSeqs(Uniq(addresses))}

\* _.difference(xs, ys): the elements of xs, in order, that are not in ys
Difference(xs, ys) == SelectSeq(xs, LAMBDA x : x \notin Range(ys))

VARIABLES
    CACHE,   \* the own properties of the CACHE object: address -> record
    CACHE2,  \* the CACHE object of the second closure the factory creates
    calls,   \* per call slot: where the sync call stands and its locals
    first,   \* per call slot: the call this one repeats (history)
    last     \* the last step, when it was a call of extendFromCache (with
             \* its list and result), a return of sync or a throw of sync

vars == <<CACHE, CACHE2, calls, first, last>>


(* --------------------------- Policy Resolver -------------------------- *)

\* mutant of SomeUnverified: the test without its negation
SomeVerified(map) == \E i \in DOMAIN map : map[i][2].isVerified

\* line 36: _.some(_.map(preferencesMap, 'isVerified'), (b) => !b)
SomeUnverified(map) == \E i \in DOMAIN map : ~map[i][2].isVerified

\* lines 40-41: the addresses whose record is not verified, in key order
invalidSigsOf(map) == Keys(SelectSeq(map, LAMBDA p : ~p[2].isVerified))

\* mutant of SomeUnpinned: the test asks whether the map has an entry
AnyEntry(map) == map # <<>>

\* line 14: _.some(_.map(preferencesMap, 'primaryPinned'), (b) => !b)
SomeUnpinned(map) == \E i \in DOMAIN map : ~map[i][2].primaryPinned

\* lines 18-19: the addresses whose primary key is not pinned, in key order
missingPrimaryKeysOf(map) == Keys(SelectSeq(map, LAMBDA p : ~p[2].primaryPinned))

\* lines 44-49: what handleInvalidSigs returns once resign answered
handleInvalidSigsResult(map, resigned) == IF resigned THEN <<>> ELSE invalidSigsOf(map)

\* mutant of handleMissingPrimaryKeysResult: the answer read the wrong way
handleMissingPrimaryKeysInverted(map, pinned) ==
    IF pinned THEN missingPrimaryKeysOf(map) ELSE <<>>

\* lines 22-27: what handleMissingPrimaryKeys returns once confirm answered
handleMissingPrimaryKeysResult(map, pinned) ==
    IF pinned THEN <<>> ELSE missingPrimaryKeysOf(map)

\* mutant of handleInvalidResult: the two lists concatenated the other way
handleInvalidResultPinFirst(invalidSigs, missingPrimaryKeys) ==
    missingPrimaryKeys \o invalidSigs

\* line 109: invalidSigs.concat(missingPrimaryKeys)
handleInvalidResult(invalidSigs, missingPrimaryKeys) == invalidSigs \o missingPrimaryKeys

(* ----------------------------- Session Cache -------------------------- *)

\* mutant of Closure: one CACHE at module scope, shared by every model
ClosureShared(message) == "m1"

\* lines 57-62: each call of the factory runs `const CACHE = {}`, so the
\* model of a message closes over a CACHE object of its own; the closure is
\* named by its message.
Closure(message) == message

\* the CACHE object the functions of message's model read (lines 73, 134, 137)
CacheOf(message) == IF Closure(message) = "m1" THEN CACHE ELSE CACHE2

\* the CACHE object of message's model is left as `cache`, the other untouched
CacheBecomes(message, cache) ==
    IF Closure(message) = "m1"
      THEN CACHE' = cache /\ UNCHANGED CACHE2
      ELSE CACHE2' = cache /\ UNCHANGED CACHE

\* lines 73-74: CACHE[Address] is truthy: an own entry (always an object)
\* or a function inherited from Object.prototype
Cached(cache, Address) == Address \in DOMAIN cache \/ Address \in ObjectPrototypeKeys

\* the own enumerable properties {...cached} copies: the entry's fields, and
\* none of an inherited function
CachedFields(cache, Address) ==
    IF Address \in DOMAIN cache THEN cache[Address] ELSE EmptyObject

\* mutant of extendFromCache: the cache is never consulted
extendFromCacheUncached(cache, list) ==
    [i \in DOMAIN list |-> Spread(list[i], [loadCryptInfo |-> TRUE])]

\* mutant of extendFromCache: the spread the other way, the cached fields win
extendFromCacheCachedWins(cache, list) ==
    [i \in DOMAIN list |->
        IF ~Cached(cache, list[i].Address)
          THEN Spread(list[i], [loadCryptInfo |-> TRUE])
          ELSE Spread(list[i], CachedFields(cache, list[i].Address))]

\* lines 70-85
extendFromCache(cache, list) ==
    [i \in DOMAIN list |->
        LET email == list[i]
            Address == email.Address
        IN  IF ~Cached(cache, Address)
              THEN Spread(email, [loadCryptInfo |-> TRUE])
              ELSE Spread(CachedFields(cache, Address), email)]

\* mutant of Put: an entry already there is kept
PutIfAbsent(cache, Address, email) ==
    [a \in (DOMAIN cache) \cup {Address} |->
        IF a \in DOMAIN cache THEN cache[a] ELSE email]

\* line 134: CACHE[Address] = email
Put(cache, Address, email) ==
    [a \in (DOMAIN cache) \cup {Address} |-> IF a = Address THEN email ELSE cache[a]]

\* line 137: delete CACHE[address]
Delete(cache, address) == [a \in (DOMAIN cache) \ {address} |-> cache[a]]

\* mutant of AddAll: the loop stops after the first record
AddFirst(cache, emailsToAdd) ==
    IF emailsToAdd = <<>> THEN cache
    ELSE Put(cache, Head(emailsToAdd).Address, Head(emailsToAdd))

RECURSIVE AddAll(_, _)
\* lines 132-135: emailsToAdd.forEach, in order
AddAll(cache, emailsToAdd) ==
    IF emailsToAdd = <<>> THEN cache
    ELSE AddAll(Put(cache, Head(emailsToAdd).Address, Head(emailsToAdd)),
                Tail(emailsToAdd))

RECURSIVE RemoveAll(_, _)
\* lines 136-138: emailsToRemove.forEach, in order
RemoveAll(cache, emailsToRemove) ==
    IF emailsToRemove = <<>> THEN cache
    ELSE RemoveAll(Delete(cache, Head(emailsToRemove)), Tail(emailsToRemove))

\* mutant of updateCache: the removals are forgotten
updateCacheAddOnly(cache, emailsToAdd, emailsToRemove) == AddAll(cache, emailsToAdd)

\* lines 131-139
updateCache(cache, emailsToAdd, emailsToRemove) ==
    RemoveAll(AddAll(cache, emailsToAdd), emailsToRemove)

(* ------------------------- Sync Orchestrator -------------------------- *)

\* mutant of failedAddressesOf: the arguments of _.difference exchanged
failedAddressesSwapped(addresses, map) == Difference(Keys(map), addresses)

\* mutant of failedAddressesOf: an address already cached counts as not fetched
failedAddressesSkippingCached(addresses, map) ==
    Difference(addresses, Keys(SelectSeq(map, LAMBDA p : p[1] \notin DOMAIN CACHE)))

\* line 154
failedAddressesOf(addresses, map) == Difference(addresses, Keys(map))

\* mutant of addressesToRemoveOf: the failed addresses are left out
addressesToRemoveInvalidOnly(invalidAddresses, failedAddresses) == invalidAddresses

\* line 160
addressesToRemoveOf(invalidAddresses, failedAddresses) ==
    invalidAddresses \o failedAddresses

\* line 163
filteredEmailsOf(emails, addressesToRemove) ==
    SelectSeq(emails, LAMBDA e : e.Address \notin Range(addressesToRemove))

\* lines 92-98 up to the await, on the record extendPGP returned (line 121):
\* `invalid` is settled at once when the address fails REGEX_EMAIL or the
\* typo checker flags it, else the task awaits keyCache.isInvalid.
startTask(email, map, typo) ==
    LET extended == extendPGP(email, Pref(map, email.Address))
        Address == extended.Address
    IN  IF ~RegexEmailTest(Address) \/ Address \in typo
          THEN [email |-> Spread(extended, [invalid |-> TRUE]), settled |-> TRUE]
          ELSE [email |-> extended, settled |-> FALSE]

\* lines 118-124: one task per email, all started before any is awaited
extendAsync(emails, map, typo) ==
    [i \in DOMAIN emails |-> startTask(emails[i], map, typo)]

\* the addresses checkTypoEmails is asked about (line 96, after REGEX_EMAIL)
Consulted(emails) == {a \in Range(Addresses(emails)) : RegexEmailTest(a)}

\* a call slot with no call in it
NoCall ==
    [pc |-> "idle", message |-> "m1", after |-> {},
     emails |-> <<>>, cache0 |-> EmptyObject,
     sendPreferencesMap |-> <<>>, failedAddresses |-> <<>>,
     nResign |-> 0, resigned |-> FALSE, invalidSigs |-> <<>>,
     nConfirm |-> 0, pinned |-> FALSE, missingPrimaryKeys |-> <<>>,
     invalidAddresses |-> <<>>, addressesToRemove |-> <<>>,
     filteredEmails |-> <<>>, typo |-> {}, tasks |-> <<>>]

NoFirst == [active |-> FALSE, call |-> NoCall, cache |-> EmptyObject]

\* `last` when the last step was op of call slot s (0: of no slot)
Event(op, s) == [op |-> op, s |-> s, message |-> "m1", list |-> <<>>, result |-> <<>>]

NoEvent == Event("none", 0)

\* `last` after a step that left call slot s as c: the call threw, or went on
Outcome(s, c) == IF c.pc = "failed" THEN Event("throw", s) ELSE NoEvent

\* The call c after an exception left sync: its locals are gone.  The model
\* keeps the input, the cache at the time of the call and the two lists that
\* were to update the cache (history).
Thrown(c) ==
    [NoCall EXCEPT !.pc = "failed", !.message = c.message, !.after = c.after,
                   !.emails = c.emails, !.cache0 = c.cache0,
                   !.addressesToRemove = c.addressesToRemove,
                   !.filteredEmails = c.filteredEmails]

\* lines 157-166, from handleMissingPrimaryKeys' return to the await of
\* extendAsync.  out.throw: extendPGP or checkTypoEmails throws; out.typo:
\* the addresses checkTypoEmails flags.
afterMissingPrimaryKeys(c, missing, out) ==
    LET invalidAddresses == handleInvalidResult(c.invalidSigs, missing)
        addressesToRemove == addressesToRemoveOf(invalidAddresses, c.failedAddresses)
        filteredEmails == filteredEmailsOf(c.emails, addressesToRemove)
        typo == out.typo \cap Consulted(filteredEmails)
        d == [c EXCEPT !.missingPrimaryKeys = missing,
                       !.invalidAddresses = invalidAddresses,
                       !.addressesToRemove = addressesToRemove,
                       !.filteredEmails = filteredEmails]
    IN  IF out.throw /\ filteredEmails # <<>>
          THEN Thrown(d)
          ELSE [d EXCEPT !.pc = "enrich", !.typo = typo,
                         !.tasks = extendAsync(filteredEmails, c.sendPreferencesMap, typo)]

\* lines 107-108 and 13-20, from handleInvalidSigs' return: either
\* autoPinPrimaryKeys.confirm is called and awaited, or the call goes on
afterInvalidSigs(c, sigs, out) ==
    LET d == [c EXCEPT !.invalidSigs = sigs]
    IN  IF SomeUnpinned(c.sendPreferencesMap)
          THEN [d EXCEPT !.pc = "confirm", !.nConfirm = @ + 1]
          ELSE afterMissingPrimaryKeys(d, <<>>, out)

\* lines 151-157 and 35-42, from the resolution of sendPreferences.get:
\* either autoPinPrimaryKeys.resign is called and awaited, or the call goes on
afterSendPreferences(c, map, out) ==
    LET d == [c EXCEPT !.sendPreferencesMap = map,
                       !.failedAddresses = failedAddressesOf(Addresses(c.emails), map)]
    IN  IF SomeUnverified(map)
          THEN [d EXCEPT !.pc = "resign", !.nResign = @ + 1]
          ELSE afterInvalidSigs(d, <<>>, out)

\* what extendPGP and checkTypoEmails may do in one extendAsync
EnrichOutcomes ==
    {[throw |-> TRUE, typo |-> {}]}
      \cup {[throw |-> FALSE, typo |-> t] : t \in SUBSET Addr}

(* ------------------------------ actions ------------------------------- *)

Init ==
    /\ CACHE = EmptyObject
    /\ CACHE2 = EmptyObject
    /\ calls = [s \in Procs |-> NoCall]
    /\ first = [s \in Procs |-> NoFirst]
    /\ last = NoEvent

\* A collaborator's answer to a call that repeats an earlier one under stable
\* collaborators is the answer the earlier call got.
Stable(s, answer, before) == first[s].active => answer = before

NeverFailsWhenStable(s) == ~first[s].active

\* the slots whose call is not yet taken by its caller
Pending == {t \in Procs : calls[t].pc # "idle"}

\* lines 147-151: the sync of message's model, called with emails, runs to
\* the await of sendPreferences.get.  `after` records the calls invoked
\* before this one that are still pending (history).
syncOf(message, s, emails) ==
    /\ calls[s].pc = "idle"
    /\ calls' = [t \in Procs |->
                   IF t = s
                     THEN [NoCall EXCEPT !.pc = "fetch", !.message = message,
                                         !.after = Pending, !.emails = emails,
                                         !.cache0 = CacheOf(message)]
                     ELSE [calls[t] EXCEPT !.after = @ \ {s}]]
    /\ first' = [first EXCEPT ![s] = NoFirst]
    /\ last' = NoEvent
    /\ UNCHANGED <<CACHE, CACHE2>>

\* sync(emails) of the model of message "m1"
sync(s, emails) == syncOf("m1", s, emails)

\* the caller calls sync again, with the same input, as soon as the call has
\* returned (lines 147-151), the collaborators answering as they did
syncAgain(s) ==
    /\ calls[s].pc = "done"
    /\ last = Event("return", s)
    /\ ~first[s].active
    /\ calls' = [calls EXCEPT ![s] = [NoCall EXCEPT !.pc = "fetch",
                                                    !.emails = calls[s].emails,
                                                    !.cache0 = CACHE]]
    /\ first' = [first EXCEPT ![s] = [active |-> TRUE, call |-> calls[s], cache |-> CACHE]]
    /\ last' = NoEvent
    /\ UNCHANGED <<CACHE, CACHE2>>

\* line 151: sendPreferences.get resolves to `map`; the call runs on to its
\* next await (resign, confirm or the enrichment tasks)
sendPreferencesResolve(s, map, out) ==
    /\ calls[s].pc = "fetch"
    /\ Stable(s, map, first[s].call.sendPreferencesMap)
    /\ Stable(s, out, [throw |-> FALSE, typo |-> first[s].call.typo])
    /\ map \in PreferenceMaps(Addresses(calls[s].emails))
    /\ calls' = [calls EXCEPT ![s] = afterSendPreferences(calls[s], map, out)]
    /\ last' = Outcome(s, calls'[s])
    /\ UNCHANGED <<CACHE, CACHE2, first>>

\* lines 42-49 and 107: autoPinPrimaryKeys.resign resolves to `resigned`
resignResolve(s, resigned, out) ==
    /\ calls[s].pc = "resign"
    /\ Stable(s, resigned, first[s].call.resigned)
    /\ Stable(s, out, [throw |-> FALSE, typo |-> first[s].call.typo])
    /\ calls' = [calls EXCEPT ![s] =
                   afterInvalidSigs([calls[s] EXCEPT !.resigned = resigned],
                       handleInvalidSigsResult(calls[s].sendPreferencesMap, resigned),
                       out)]
    /\ last' = Outcome(s, calls'[s])
    /\ UNCHANGED <<CACHE, CACHE2, first>>

\* lines 20-27 and 108: autoPinPrimaryKeys.confirm resolves to `pinned`
confirmResolve(s, pinned, out) ==
    /\ calls[s].pc = "confirm"
    /\ Stable(s, pinned, first[s].call.pinned)
    /\ Stable(s, out, [throw |-> FALSE, typo |-> first[s].call.typo])
    /\ calls' = [calls EXCEPT ![s] =
                   afterMissingPrimaryKeys([calls[s] EXCEPT !.pinned = pinned],
                       handleMissingPrimaryKeysResult(calls[s].sendPreferencesMap, pinned),
                       out)]
    /\ last' = Outcome(s, calls'[s])
    /\ UNCHANGED <<CACHE, CACHE2, first>>

\* lines 151, 42, 20: the awaited collaborator rejects; the exception leaves
\* sync, which has not reached updateCache
collaboratorReject(s) ==
    /\ calls[s].pc \in {"fetch", "resign", "confirm"}
    /\ NeverFailsWhenStable(s)
    /\ calls' = [calls EXCEPT ![s] = Thrown(calls[s])]
    /\ last' = Event("throw", s)
    /\ UNCHANGED <<CACHE, CACHE2, first>>

\* mutant of keyCacheResolve: the task takes the answer but the join is not
\* told that it settled
keyCacheResolveUnjoined(s, i, invalid) ==
    /\ calls[s].pc = "enrich"
    /\ i \in DOMAIN calls[s].tasks
    /\ ~calls[s].tasks[i].settled
    /\ Stable(s, invalid, first[s].call.tasks[i].email.invalid)
    /\ calls' = [calls EXCEPT ![s].tasks[i] =
                   [email |-> Spread(@.email, [invalid |-> invalid]), settled |-> FALSE]]
    /\ last' = NoEvent
    /\ UNCHANGED <<CACHE, CACHE2, first>>

\* line 96: keyCache.isInvalid(Address) of task i resolves to `invalid`
keyCacheResolve(s, i, invalid) ==
    /\ calls[s].pc = "enrich"
    /\ i \in DOMAIN calls[s].tasks
    /\ ~calls[s].tasks[i].settled
    /\ Stable(s, invalid, first[s].call.tasks[i].email.invalid)
    /\ calls' = [calls EXCEPT ![s].tasks[i] =
                   [email |-> Spread(@.email, [invalid |-> invalid]), settled |-> TRUE]]
    /\ last' = NoEvent
    /\ UNCHANGED <<CACHE, CACHE2, first>>

\* mutant of keyCacheReject: a join that isolates the failed task and still
\* updates the cache with the tasks that have settled
keyCacheRejectTolerant(s, i) ==
    /\ calls[s].pc = "enrich"
    /\ i \in DOMAIN calls[s].tasks
    /\ ~calls[s].tasks[i].settled
    /\ NeverFailsWhenStable(s)
    /\ CacheBecomes(calls[s].message,
           updateCache(CacheOf(calls[s].message),
               [j \in DOMAIN SelectSeq(calls[s].tasks, LAMBDA t : t.settled) |->
                   SelectSeq(calls[s].tasks, LAMBDA t : t.settled)[j].email],
               calls[s].addressesToRemove))
    /\ calls' = [calls EXCEPT ![s] = Thrown(calls[s])]
    /\ last' = Event("throw", s)
    /\ UNCHANGED first

\* lines 96, 119 and 166: keyCache.isInvalid of task i rejects, Promise.all
\* rejects with it and the exception leaves sync
keyCacheReject(s, i) ==
    /\ calls[s].pc = "enrich"
    /\ i \in DOMAIN calls[s].tasks
    /\ ~calls[s].tasks[i].settled
    /\ NeverFailsWhenStable(s)
    /\ calls' = [calls EXCEPT ![s] = Thrown(calls[s])]
    /\ last' = Event("throw", s)
    /\ UNCHANGED <<CACHE, CACHE2, first>>

\* mutant of extendedEmails: the records found invalid are not passed on
extendedEmailsValidOnly(c) ==
    LET valid == SelectSeq(c.tasks, LAMBDA t : ~t.email.invalid)
    IN  [i \in DOMAIN valid |-> valid[i].email]

\* the enriched records of a call whose tasks have all settled (line 166)
extendedEmails(c) == [i \in DOMAIN c.tasks |-> c.tasks[i].email]

\* the place in the enriched list of the last input record for address a
LastTaskFor(c, a) ==
    CHOOSE j \in DOMAIN c.filteredEmails :
        /\ c.filteredEmails[j].Address = a
        /\ \A k \in DOMAIN c.filteredEmails : c.filteredEmails[k].Address = a => k <= j

\* what the update of call c leaves in the cache for an address a of its
\* input: the set of the one record it writes, empty when it removes a
Left(c, a) ==
    IF a \in Range(c.addressesToRemove)
      THEN {}
      ELSE {c.tasks[LastTaskFor(c, a)].email}

\* the calls suspended at an await
InFlight == {t \in Procs : calls[t].pc \in {"fetch", "resign", "confirm", "enrich"}}

\* mutant of AllSettled: the join resolves with the first task that settles
AnySettled(c) == \E i \in DOMAIN c.tasks : c.tasks[i].settled

\* lines 119 and 166: Promise.all resolves when every task has settled
AllSettled(c) == \A i \in DOMAIN c.tasks : c.tasks[i].settled

\* lines 166-174: every task has settled, Promise.all resolves, the cache of
\* the call's model is updated and sync returns
syncReturn(s) ==
    /\ calls[s].pc = "enrich"
    /\ AllSettled(calls[s])
    /\ CacheBecomes(calls[s].message,
           updateCache(CacheOf(calls[s].message), extendedEmails(calls[s]),
                       calls[s].addressesToRemove))
    /\ calls' = [calls EXCEPT ![s].pc = "done"]
    /\ last' = Event("return", s)
    /\ UNCHANGED first

\* the caller has taken the result (or the exception) of the call
callerDone(s) ==
    /\ calls[s].pc \in {"done", "failed"}
    /\ calls' = [calls EXCEPT ![s] = NoCall]
    /\ first' = [first EXCEPT ![s] = NoFirst]
    /\ last' = NoEvent
    /\ UNCHANGED <<CACHE, CACHE2>>

\* mutant of extendFromCacheOf: the lookup memoises what it returns for the
\* addresses it did not find
extendFromCacheMemo(message, list) ==
    /\ last' = [op |-> "extendFromCache", s |-> 0, message |-> message,
                list |-> list, result |-> extendFromCache(CacheOf(message), list)]
    /\ CacheBecomes(message,
           AddAll(CacheOf(message),
                  SelectSeq(extendFromCache(CacheOf(message), list),
                            LAMBDA e : ~Cached(CacheOf(message), e.Address))))
    /\ UNCHANGED <<calls, first>>

\* lines 70-85: extendFromCache(list), a synchronous call: it reads the cache
\* and returns in one step
extendFromCacheOf(message, list) ==
    /\ last' = [op |-> "extendFromCache", s |-> 0, message |-> message,
                list |-> list, result |-> extendFromCache(CacheOf(message), list)]
    /\ UNCHANGED <<CACHE, CACHE2, calls, first>>

\* extendFromCache(list) of the model of message "m1"
extendFromCacheCall(list) == extendFromCacheOf("m1", list)

\* no call of sync is pending: each slot is free, its last call taken
Quiet == \A t \in Procs : calls[t].pc = "idle"

\* the caller of slot s has no other call pending
OthersQuiet(s) == \A t \in Procs \ {s} : calls[t].pc = "idle"

\* a new call takes the first free slot (the slots are interchangeable)
FirstFree(s) == calls[s].pc = "idle" /\ \A t \in 1..(s - 1) : calls[t].pc # "idle"

\* The caller makes its calls one at a time: a sync or a lookup when no sync
\* is pending; the collaborators answer in any order and in any way.
Next ==
    \/ \E s \in Procs, emails \in SyncInputs : Quiet /\ FirstFree(s) /\ sync(s, emails)
    \/ \E s \in Procs :
          /\ calls[s].pc = "fetch"
          /\ \E out \in EnrichOutcomes, map \in PreferenceMaps(Addresses(calls[s].emails)) :
                sendPreferencesResolve(s, map, out)
    \/ \E s \in Procs, out \in EnrichOutcomes, b \in BOOLEAN : resignResolve(s, b, out)
    \/ \E s \in Procs, out \in EnrichOutcomes, b \in BOOLEAN : confirmResolve(s, b, out)
    \/ \E s \in Procs : collaboratorReject(s)
    \/ \E s \in Procs, i \in 1..MaxEmails, b \in BOOLEAN : keyCacheResolve(s, i, b)
    \/ \E s \in Procs, i \in 1..MaxEmails : keyCacheReject(s, i)
    \/ \E s \in Procs : syncReturn(s)
    \/ \E s \in Procs : callerDone(s)
    \/ \E list \in LookupInputs : Quiet /\ extendFromCacheCall(list)

Spec == Init /\ [][Next]_vars

\* Two calls in sequence with an unchanged input and stable collaborators:
\* after any history of calls, a call that returned is made again at once.
NextStable ==
    \/ \E s \in Procs, emails \in SyncInputs : Quiet /\ FirstFree(s) /\ sync(s, emails)
    \/ \E s \in Procs : OthersQuiet(s) /\ syncAgain(s)
    \/ \E s \in Procs :
          /\ calls[s].pc = "fetch"
          /\ \E out \in EnrichOutcomes, map \in PreferenceMaps(Addresses(calls[s].emails)) :
                sendPreferencesResolve(s, map, out)
    \/ \E s \in Procs, out \in EnrichOutcomes, b \in BOOLEAN : resignResolve(s, b, out)
    \/ \E s \in Procs, out \in EnrichOutcomes, b \in BOOLEAN : confirmResolve(s, b, out)
    \/ \E s \in Procs, i \in 1..MaxEmails, b \in BOOLEAN : keyCacheResolve(s, i, b)
    \/ \E s \in Procs : syncReturn(s)
    \/ \E s \in Procs : callerDone(s)

SpecStable == Init /\ [][NextStable]_vars

\* the lists overlapping calls are made with: one address, and the same
\* address followed by a second one
OverlapInputs ==
    {<<[Address |-> "a@x.com"]>>,
     <<[Address |-> "a@x.com"], [Address |-> "constructor"]>>}

\* the list a lookup among overlapping calls is made with: every address
LookupProbes == {<<[Address |-> "a@x.com"], [Address |-> "constructor"]>>}

\* the preference maps overlapping calls get: any address may be missing, an
\* entry is verified and pinned or neither
OverlapMaps(addresses) ==
    {m \in PreferenceMaps(addresses) :
        \A i \in DOMAIN m : m[i][2].primaryPinned = m[i][2].isVerified}

\* extendPGP and checkTypoEmails among overlapping calls: no throw, no typo
\* (the calls still fail by a collaborator's rejection)
OverlapOutcomes == {[throw |-> FALSE, typo |-> {}]}

\* a call has settled and its caller has not yet taken the result
Settling == \E t \in Procs : calls[t].pc \in {"done", "failed"}

\* Calls that overlap: sync is called while other calls of it are suspended
\* at an await, extendFromCache is called at any suspension point, the
\* collaborators answer in any order.  The caller's continuation runs as
\* soon as its call settles, before the next answer of a collaborator.
NextConc ==
    \/ \E s \in Procs : Settling /\ callerDone(s)
    \/ \E s \in Procs, emails \in OverlapInputs :
          ~Settling /\ FirstFree(s) /\ sync(s, emails)
    \/ \E s \in Procs :
          /\ ~Settling
          /\ calls[s].pc = "fetch"
          /\ \E out \in OverlapOutcomes, map \in OverlapMaps(Addresses(calls[s].emails)) :
                sendPreferencesResolve(s, map, out)
    \/ \E s \in Procs, out \in OverlapOutcomes, b \in BOOLEAN :
          ~Settling /\ resignResolve(s, b, out)
    \/ \E s \in Procs, out \in OverlapOutcomes, b \in BOOLEAN :
          ~Settling /\ confirmResolve(s, b, out)
    \/ \E s \in Procs : ~Settling /\ collaboratorReject(s)
    \/ \E s \in Procs, i \in 1..MaxEmails, b \in BOOLEAN :
          ~Settling /\ keyCacheResolve(s, i, b)
    \/ \E s \in Procs, i \in 1..MaxEmails : ~Settling /\ keyCacheReject(s, i)
    \/ \E s \in Procs : ~Settling /\ syncReturn(s)
    \/ \E list \in LookupProbes : ~Settling /\ extendFromCacheCall(list)

SpecConc == Init /\ [][NextConc]_vars

\* the preference maps with every entry verified and pinned: an address is
\* fetched or its fetch fails
PinnedMaps(addresses) ==
    {m \in PreferenceMaps(addresses) :
        \A i \in DOMAIN m : m[i][2].primaryPinned /\ m[i][2].isVerified}

\* Calls that overlap and whose results the caller takes once no call is
\* suspended: the record of a call that has returned stays in its slot while
\* the calls it overlaps go on.  No prompt is needed, no collaborator rejects.
NextRace ==
    \/ \E s \in Procs, emails \in OverlapInputs : FirstFree(s) /\ sync(s, emails)
    \/ \E s \in Procs :
          /\ calls[s].pc = "fetch"
          /\ \E out \in OverlapOutcomes, map \in PinnedMaps(Addresses(calls[s].emails)) :
                sendPreferencesResolve(s, map, out)
    \/ \E s \in Procs, i \in 1..MaxEmails, b \in BOOLEAN : keyCacheResolve(s, i, b)
    \/ \E s \in Procs : syncReturn(s)
    \/ \E s \in Procs : InFlight = {} /\ callerDone(s)

SpecRace == Init /\ [][NextRace]_vars

\* lists of records that carry an address alone, no address twice
DistinctInputs ==
    {es \in SeqsUpTo({[Address |-> a] : a \in Addr}, MaxEmails) :
        \A i, j \in DOMAIN es : i # j => es[i] # es[j]}

\* Two models, created by the factory for two messages: the caller makes its
\* calls one at a time, a sync or a lookup of either model.
NextTwo ==
    \/ \E message \in Messages, s \in Procs, emails \in DistinctInputs :
          Quiet /\ FirstFree(s) /\ syncOf(message, s, emails)
    \/ \E s \in Procs :
          /\ calls[s].pc = "fetch"
          /\ \E out \in EnrichOutcomes, map \in PreferenceMaps(Addresses(calls[s].emails)) :
                sendPreferencesResolve(s, map, out)
    \/ \E s \in Procs, out \in EnrichOutcomes, b \in BOOLEAN : resignResolve(s, b, out)
    \/ \E s \in Procs, out \in EnrichOutcomes, b \in BOOLEAN : confirmResolve(s, b, out)
    \/ \E s \in Procs : collaboratorReject(s)
    \/ \E s \in Procs, i \in 1..MaxEmails, b \in BOOLEAN : keyCacheResolve(s, i, b)
    \/ \E s \in Procs, i \in 1..MaxEmails : keyCacheReject(s, i)
    \/ \E s \in Procs : syncReturn(s)
    \/ \E s \in Procs : callerDone(s)
    \/ \E message \in Messages, list \in LookupInputs :
          Quiet /\ extendFromCacheOf(message, list)

SpecTwo == Init /\ [][NextTwo]_vars

\* the list the calls of the fair specification are made with: one address
\* twice, so that a call has two enrichment tasks
TwiceInputs ==
    {<<[Address |-> "a@x.com"], [Address |-> "a@x.com", loadCryptInfo |-> TRUE]>>}

\* a collaborator call of the sync in slot s responds: sendPreferences.get
\* (line 151), autoPinPrimaryKeys.resign (line 42), autoPinPrimaryKeys.confirm
\* (line 20) or a keyCache.isInvalid (line 96) resolves or rejects
Respond(s) ==
    \/ /\ calls[s].pc = "fetch"
       /\ \E out \in OverlapOutcomes, map \in PreferenceMaps(Addresses(calls[s].emails)) :
             sendPreferencesResolve(s, map, out)
    \/ \E out \in OverlapOutcomes, b \in BOOLEAN : resignResolve(s, b, out)
    \/ \E out \in OverlapOutcomes, b \in BOOLEAN : confirmResolve(s, b, out)
    \/ collaboratorReject(s)
    \/ \E i \in 1..MaxEmails, b \in BOOLEAN : keyCacheResolve(s, i, b)
    \/ \E i \in 1..MaxEmails : keyCacheReject(s, i)

\* Calls that overlap on one cache, with no lookups: sync is called while
\* other calls of it are suspended, the collaborators answer in any order and
\* in any way, the caller's continuation runs as soon as its call settles.
NextLive ==
    \/ \E s \in Procs : Settling /\ callerDone(s)
    \/ \E s \in Procs, emails \in TwiceInputs :
          ~Settling /\ FirstFree(s) /\ sync(s, emails)
    \/ \E s \in Procs : ~Settling /\ Respond(s)
    \/ \E s \in Procs : ~Settling /\ syncReturn(s)

\* Every collaborator call of a sync eventually responds, and the event loop
\* eventually runs a continuation that is ready (the one of sync after the
\* join of line 166, the one of the caller): the steps of other calls that
\* come in between delay a step, they do not cancel it.
Fairness ==
    \A s \in Procs :
        /\ SF_vars(~Settling /\ Respond(s))
        /\ SF_vars(~Settling /\ syncReturn(s))
        /\ WF_vars(Settling /\ callerDone(s))

SpecLive == Init /\ [][NextLive]_vars /\ Fairness

(* ------------------------------- claims ------------------------------- *)

\* the call of slot s has just returned its SyncResult
JustReturned(s) == last = Event("return", s) /\ calls[s].pc = "done"

\* the call of slot s has just failed with an exception
JustThrew(s) == last = Event("throw", s) /\ calls[s].pc = "failed"

\* the SyncResult of a call (lines 171-174)
SyncResult(c) ==
    [addressesToRemove |-> c.addressesToRemove, failedAddresses |-> c.failedAddresses]

\* C1: when sync returns, the set of the addresses in failedAddresses is the
\* set of the addresses of the input that are not keys of the PreferenceMap
\* the preference service returned to this call.
C1_FailedIsDifference ==
    \A s \in Procs :
        JustReturned(s) =>
            Range(calls[s].failedAddresses)
              = Range(Addresses(calls[s].emails)) \ Range(Keys(calls[s].sendPreferencesMap))

\* a call returned whose input names two addresses, one fetched and one not
C1_Witness ==
    \E s \in Procs :
        /\ JustReturned(s)
        /\ calls[s].failedAddresses # <<>>
        /\ calls[s].sendPreferencesMap # <<>>

\* C2: when sync returns, every address of failedAddresses is in
\* addressesToRemove, whatever the preference map and the prompts' answers.
C2_FailedInToRemove ==
    \A s \in Procs :
        JustReturned(s) =>
            Range(calls[s].failedAddresses) \subseteq Range(calls[s].addressesToRemove)

\* a call returned with a failed address and, before it in addressesToRemove,
\* an address the Policy Resolver returned
C2_Witness ==
    \E s \in Procs :
        /\ JustReturned(s)
        /\ calls[s].failedAddresses # <<>>
        /\ calls[s].invalidAddresses # <<>>

\* C3: when sync returns, with no other sync in flight, no address of its
\* addressesToRemove is an entry of the cache, also when an earlier sync had
\* cached it.
C3_RemovedNotCached ==
    \A s \in Procs :
        JustReturned(s) =>
            \A a \in Range(calls[s].addressesToRemove) : a \notin DOMAIN CACHE

\* a call returned that removed an address whose fetch failed and an address
\* with an unremediated violation, both cached when the call was made
C3_Witness ==
    \E s \in Procs :
        /\ JustReturned(s)
        /\ \E a \in Range(calls[s].failedAddresses) : a \in DOMAIN calls[s].cache0
        /\ \E a \in Range(calls[s].invalidAddresses) : a \in DOMAIN calls[s].cache0

\* C4: when sync returns, every address of the input that is not in
\* addressesToRemove is an entry of the cache, the entry is the record this
\* call enriched for it (the last one, when the input names it twice), and
\* extendFromCache for the address returns that entry.
C4_KeptIsCached ==
    \A s \in Procs :
        JustReturned(s) =>
            \A a \in Range(Addresses(calls[s].emails)) \ Range(calls[s].addressesToRemove) :
                /\ a \in DOMAIN CACHE
                /\ CACHE[a] = calls[s].tasks[LastTaskFor(calls[s], a)].email
                /\ "invalid" \in DOMAIN CACHE[a]
                /\ extendFromCache(CACHE, <<[Address |-> a]>>) = <<CACHE[a]>>

\* a call returned that kept an address cached before with another record,
\* and removed another address
C4_Witness ==
    \E s \in Procs :
        /\ JustReturned(s)
        /\ calls[s].addressesToRemove # <<>>
        /\ \E a \in Range(Addresses(calls[s].emails)) \ Range(calls[s].addressesToRemove) :
              a \in DOMAIN calls[s].cache0 /\ calls[s].cache0[a] # CACHE[a]

\* every entry of the map is verified and pinned
AllGood(map) == \A i \in DOMAIN map : map[i][2].isVerified /\ map[i][2].primaryPinned

\* C5: when every entry of the preference map is verified and pinned (the
\* empty map too), handleInvalid returns the empty sequence and neither
\* autoPinPrimaryKeys.resign nor autoPinPrimaryKeys.confirm is called.
C5_AllGoodNoPrompt ==
    \A s \in Procs :
        (calls[s].pc \in {"resign", "confirm", "enrich", "done"}
            /\ AllGood(calls[s].sendPreferencesMap)) =>
                /\ calls[s].pc \in {"enrich", "done"}
                /\ calls[s].nResign = 0
                /\ calls[s].nConfirm = 0
                /\ calls[s].invalidAddresses = <<>>

\* a call got a map of two entries, all verified and pinned, and returned
C5_Witness ==
    \E s \in Procs :
        /\ JustReturned(s)
        /\ Len(calls[s].sendPreferencesMap) = 2
        /\ AllGood(calls[s].sendPreferencesMap)

\* C6: when no entry of the map is pinned and autoPinPrimaryKeys.confirm
\* answered true, handleMissingPrimaryKeys returns no address: handleInvalid
\* returns what handleInvalidSigs returned.
C6_PinnedContributesNone ==
    \A s \in Procs :
        (/\ calls[s].pc \in {"enrich", "done"}
         /\ \A i \in DOMAIN calls[s].sendPreferencesMap :
                ~calls[s].sendPreferencesMap[i][2].primaryPinned
         /\ calls[s].nConfirm = 1
         /\ calls[s].pinned) =>
            /\ calls[s].missingPrimaryKeys = <<>>
            /\ calls[s].invalidAddresses = calls[s].invalidSigs

\* a call got a map of two entries, none pinned, confirm answered true, the
\* signature check had contributed an address, and the call returned
C6_Witness ==
    \E s \in Procs :
        /\ JustReturned(s)
        /\ Len(calls[s].sendPreferencesMap) = 2
        /\ \A i \in DOMAIN calls[s].sendPreferencesMap :
                ~calls[s].sendPreferencesMap[i][2].primaryPinned
        /\ calls[s].nConfirm = 1
        /\ calls[s].pinned
        /\ calls[s].invalidSigs # <<>>

\* C7: extendFromCache on an address that has no cache entry returns the
\* input record with loadCryptInfo: true, its other fields unchanged (and the
\* cache is left as it was: extendFromCacheCall changes `last` alone).
C7_UncachedIsLoading ==
    last.op = "extendFromCache" =>
        \A i \in DOMAIN last.list :
            last.list[i].Address \notin DOMAIN CACHE =>
                last.result[i] = Spread(last.list[i], [loadCryptInfo |-> TRUE])

C9_Idempotent ==
    \A s \in Procs :
        (JustReturned(s) /\ first[s].active) =>
            /\ SyncResult(calls[s]) = SyncResult(first[s].call)
            /\ CACHE = first[s].cache

\* a call was repeated and returned; the first call had found an address
\* cached, kept one address and removed another
C9_Witness ==
    \E s \in Procs :
        /\ JustReturned(s)
        /\ first[s].active
        /\ first[s].call.cache0 # EmptyObject
        /\ first[s].call.addressesToRemove # <<>>
        /\ first[s].call.filteredEmails # <<>>

\* C10: when an enrichment task or a collaborator called before the update
\* throws or rejects, sync fails and the cache is what it was when the sync
\* was called: none of its additions and removals is applied.
C10_FailureLeavesCache ==
    \A s \in Procs :
        last = Event("throw", s) =>
            /\ calls[s].pc = "failed"
            /\ CACHE = calls[s].cache0

\* a call failed after it had computed what to write: a record to add and
\* an address to remove, which is still cached
C10_Witness ==
    \E s \in Procs :
        /\ JustThrew(s)
        /\ calls[s].filteredEmails # <<>>
        /\ \E a \in Range(calls[s].addressesToRemove) : a \in DOMAIN CACHE

\* the tasks of call c that enrich a record of address a
TasksFor(c, a) == {i \in DOMAIN c.tasks : c.tasks[i].email.Address = a}

\* C13: when sync returns, an address of the input that the preference
\* service answered for, that the Policy Resolver did not return and whose
\* records the Address Validator all found invalid (malformed, flagged as a
\* typo or key-invalid) is not in addressesToRemove and is an entry of the
\* cache, with invalid = true.
C13_InvalidIsKept ==
    \A s \in Procs :
        JustReturned(s) =>
            \A a \in Range(Addresses(calls[s].emails)) :
                (/\ a \in Range(Keys(calls[s].sendPreferencesMap))
                 /\ a \notin Range(calls[s].invalidAddresses)
                 /\ \A i \in TasksFor(calls[s], a) : calls[s].tasks[i].email.invalid) =>
                    /\ a \notin Range(calls[s].addressesToRemove)
                    /\ a \in DOMAIN CACHE
                    /\ CACHE[a].invalid

\* a call returned that cached a malformed address and an address the key
\* cache found invalid (well-formed, not flagged as a typo), both invalid
C13_Witness ==
    \E s \in Procs :
        /\ JustReturned(s)
        /\ calls[s].addressesToRemove = <<>>
        /\ \E a \in DOMAIN CACHE : ~RegexEmailTest(a) /\ CACHE[a].invalid
        /\ \E i \in DOMAIN calls[s].tasks :
              LET a == calls[s].tasks[i].email.Address
              IN  /\ RegexEmailTest(a)
                  /\ a \notin calls[s].typo
                  /\ a \in DOMAIN CACHE
                  /\ CACHE[a].invalid

\* C14: once handleInvalid has returned, its output is the addresses of the
\* map's unverified entries, in key order, if there are any and resign
\* answered false (else nothing), followed by the addresses of the unpinned
\* entries if there are any and confirm answered false (else nothing); an
\* address of both lists stands twice.
C14_Concatenation ==
    \A s \in Procs :
        calls[s].pc \in {"enrich", "done"} =>
            LET map == calls[s].sendPreferencesMap
                unverified == SelectSeq(map, LAMBDA p : ~p[2].isVerified)
                unpinned == SelectSeq(map, LAMBDA p : ~p[2].primaryPinned)
                sigs == IF unverified # <<>> /\ ~calls[s].resigned
                          THEN [i \in DOMAIN unverified |-> unverified[i][1]]
                          ELSE <<>>
                pins == IF unpinned # <<>> /\ ~calls[s].pinned
                          THEN [i \in DOMAIN unpinned |-> unpinned[i][1]]
                          ELSE <<>>
            IN  calls[s].invalidAddresses = sigs \o pins

\* a call returned whose map had an address neither verified nor pinned and
\* another address only unpinned, both prompts declined: the first address
\* stands twice in the output, the lists of the two checks differ
C14_Witness ==
    \E s \in Procs :
        /\ JustReturned(s)
        /\ calls[s].nResign = 1 /\ ~calls[s].resigned
        /\ calls[s].nConfirm = 1 /\ ~calls[s].pinned
        /\ Len(calls[s].invalidAddresses) = 3
        /\ calls[s].invalidAddresses[1] = calls[s].invalidAddresses[2]

\* C17: extendFromCache on an address that has a cache entry returns a
\* record with the fields of the input and of the entry and no other: every
\* field of the input has the input's value, every field of the entry alone
\* has the entry's value.
C17_InputOverridesCached ==
    last.op = "extendFromCache" =>
        \A i \in DOMAIN last.list :
            LET input == last.list[i]
                A == input.Address
            IN  A \in DOMAIN CACHE =>
                    /\ DOMAIN last.result[i] = DOMAIN input \cup DOMAIN CACHE[A]
                    /\ \A f \in DOMAIN input : last.result[i][f] = input[f]
                    /\ \A f \in DOMAIN CACHE[A] \ DOMAIN input :
                          last.result[i][f] = CACHE[A][f]

\* a lookup whose input carries a field the entry lacks (Name) and a field
\* the entry has with another value (loadCryptInfo), for an entry that has
\* fields of its own (invalid)
C17_Witness ==
    /\ last.op = "extendFromCache"
    /\ \E i \in DOMAIN last.list :
          LET input == last.list[i]
              A == input.Address
          IN  /\ A \in DOMAIN CACHE
              /\ "Name" \in DOMAIN input \ DOMAIN CACHE[A]
              /\ "loadCryptInfo" \in DOMAIN input \cap DOMAIN CACHE[A]
              /\ input.loadCryptInfo # CACHE[A].loadCryptInfo
              /\ "invalid" \in DOMAIN CACHE[A] \ DOMAIN input

\* the calls that have returned, their records still in their slots, whose
\* input names address a
ReturnedNaming(a) ==
    {t \in Procs : calls[t].pc = "done" /\ a \in Range(Addresses(calls[t].emails))}

\* the most recently invoked of them: every other one was pending when it
\* was invoked
MostRecentNaming(a) ==
    CHOOSE t \in ReturnedNaming(a) : ReturnedNaming(a) \ {t} \subseteq calls[t].after

\* the entry of the cache for address a: the set of its record, empty if none
CacheEntry(a) == IF a \in DOMAIN CACHE THEN {CACHE[a]} ELSE {}

\* C11: when a sync returns and no sync is in flight, for every address of
\* its input the cache holds what the most recently invoked sync that named
\* the address left for it: the record that sync enriched if it retained the
\* address, no entry if it removed it; also when that sync overlapped this
\* one and returned before it.
C11_MostRecentWins ==
    \A s \in Procs :
        (JustReturned(s) /\ InFlight = {}) =>
            \A a \in Range(Addresses(calls[s].emails)) :
                CacheEntry(a) = Left(calls[MostRecentNaming(a)], a)

\* the step is the return of a sync of message's model
ReturnOf(message) ==
    \E s \in Procs :
        /\ calls[s].message = message
        /\ calls[s].pc = "enrich"
        /\ calls'[s].pc = "done"

\* C12: of the two models the factory created for two messages, the cache
\* of each changes only in the return of a sync of that model, and a lookup
\* on a model answers from that model's cache: no call on one model changes
\* the other's cache or what the other's lookups return.
C12_CachesIndependent ==
    [][/\ CACHE' # CACHE => ReturnOf("m1")
       /\ CACHE2' # CACHE2 => ReturnOf("m2")
       /\ last'.op = "extendFromCache" =>
             last'.result = extendFromCache(IF last'.message = "m1" THEN CACHE' ELSE CACHE2',
                                            last'.list)]_vars

\* a lookup on the second model, for an address the first model has cached
\* and the second has not, finds no entry; the second model has an entry too
C12_Witness ==
    /\ last.op = "extendFromCache"
    /\ last.message = "m2"
    /\ CACHE2 # EmptyObject
    /\ \E i \in DOMAIN last.list :
          /\ last.list[i].Address \in DOMAIN CACHE \ (DOMAIN CACHE2 \cup ObjectPrototypeKeys)
          /\ last.result[i].loadCryptInfo

\* an enrichment task of the call of slot s has not finished
TaskPending(s) ==
    calls[s].pc = "enrich" /\ \E i \in DOMAIN calls[s].tasks : ~calls[s].tasks[i].settled

\* C15: a step taken while an enrichment task of a sync is pending leaves
\* the cache as it is, and the cache changes only in the step in which a
\* sync whose tasks have all finished, in any order, returns.
C15_UpdateAfterJoin ==
    [][/\ (\E s \in Procs : TaskPending(s)) => CACHE' = CACHE
       /\ CACHE' # CACHE =>
             \E s \in Procs :
                 /\ calls[s].pc = "enrich" /\ calls'[s].pc = "done"
                 /\ \A i \in DOMAIN calls[s].tasks :
                        "invalid" \in DOMAIN calls[s].tasks[i].email]_vars

\* a call returned and changed the cache after two tasks that both awaited
\* the key cache (well-formed addresses, not flagged as typos)
C15_Witness ==
    \E s \in Procs :
        /\ JustReturned(s)
        /\ Len(calls[s].tasks) = 2
        /\ \A i \in DOMAIN calls[s].tasks :
              /\ RegexEmailTest(calls[s].tasks[i].email.Address)
              /\ calls[s].tasks[i].email.Address \notin calls[s].typo
        /\ calls[s].tasks[1].email.invalid # calls[s].tasks[2].email.invalid
        /\ CACHE # calls[s].cache0

\* the step is the update step of the call of slot s: its join resolved,
\* updateCache ran and sync returned (lines 166-174)
UpdateStep(s) == calls[s].pc = "enrich" /\ calls'[s].pc = "done"

\* C16: the cache changes only in the update step of a sync.  A step in
\* which a preference fetch or a prompt is answered, an enrichment task
\* settles, a call fails or extendFromCache is called leaves it unchanged;
\* while a sync is between its invocation and its update step, the cache
\* changes only in the update step of another sync.
C16_OnlyUpdateWrites ==
    [][/\ CACHE' # CACHE => \E s \in Procs : UpdateStep(s)
       /\ last'.op = "extendFromCache" => CACHE' = CACHE
       /\ \A s \in Procs :
             (s \in InFlight /\ ~UpdateStep(s) /\ CACHE' # CACHE) =>
                 \E t \in Procs \ {s} : UpdateStep(t)]_vars

\* extendFromCache was called while a sync awaits the answer to a prompt,
\* and another sync has changed the cache since that sync was invoked
C16_Witness ==
    /\ last.op = "extendFromCache"
    /\ \E s \in Procs :
          /\ calls[s].pc \in {"resign", "confirm"}
          /\ CACHE # calls[s].cache0

\* C19: the update step of a sync applies all of its additions and removals
\* at once: after the step every address it removes has no entry, every
\* address it keeps has the record the sync enriched, every other entry is as
\* before; a call of extendFromCache is a step of its own, which answers
\* from the cache as the update steps so far left it.
C19_UpdateIsAtomic ==
    [][/\ \A s \in Procs :
             UpdateStep(s) =>
                 \A a \in Addr :
                     IF a \in Range(Addresses(calls[s].emails))
                       THEN (IF a \in DOMAIN CACHE' THEN {CACHE'[a]} ELSE {})
                              = Left(calls[s], a)
                       ELSE (IF a \in DOMAIN CACHE' THEN {CACHE'[a]} ELSE {})
                              = CacheEntry(a)
       /\ last'.op = "extendFromCache" =>
             /\ calls' = calls
             /\ last'.result = extendFromCache(CACHE, last'.list)]_vars

\* extendFromCache was called while a sync is in flight, after update steps
\* that, since that sync was invoked, removed an entry and added another:
\* the lookup finds the one and not the other
C19_Witness ==
    /\ last.op = "extendFromCache"
    /\ \E s \in InFlight :
          \E i, j \in DOMAIN last.list :
              /\ last.list[i].Address \in DOMAIN calls[s].cache0 \ DOMAIN CACHE
              /\ last.list[j].Address \in DOMAIN CACHE \ DOMAIN calls[s].cache0
              /\ "invalid" \in DOMAIN last.result[j]
              /\ "invalid" \notin DOMAIN last.result[i]

\* C18: in every step of a sync: the resign prompt is issued only in the
\* step in which the preference fetch is answered, the auto-pin prompt only
\* in that step or in the step in which resign is answered, so never while
\* resign is pending; each is issued at most once and for a non-empty list
\* of addresses (the unverified, the unpinned entries of the map); no
\* enrichment task exists while the fetch or a prompt is pending.
C18_PromptsSequenced ==
    [][\A s \in Procs :
          LET c == calls[s]
              d == calls'[s]
              unverified == SelectSeq(d.sendPreferencesMap, LAMBDA p : ~p[2].isVerified)
              unpinned == SelectSeq(d.sendPreferencesMap, LAMBDA p : ~p[2].primaryPinned)
          IN  /\ d.nResign <= 1 /\ d.nConfirm <= 1
              /\ d.nResign > c.nResign =>
                    /\ c.pc = "fetch" /\ d.pc = "resign"
                    /\ d.nConfirm = 0
                    /\ unverified # <<>>
              /\ d.nConfirm > c.nConfirm =>
                    /\ c.pc \in {"fetch", "resign"} /\ d.pc = "confirm"
                    /\ unpinned # <<>>
              /\ d.pc = "resign" => d.nResign = 1 /\ d.nConfirm = 0
              /\ d.pc = "confirm" => d.nConfirm = 1
              /\ d.pc \in {"fetch", "resign", "confirm"} => d.tasks = <<>>
              /\ (d.pc = "enrich" /\ c.pc # "enrich") =>
                    c.pc \in {"fetch", "resign", "confirm"}]_vars

\* a call issued both prompts, both were declined, an address was left to
\* enrich, and the call returned
C18_Witness ==
    \E s \in Procs :
        /\ JustReturned(s)
        /\ calls[s].nResign = 1 /\ ~calls[s].resigned
        /\ calls[s].nConfirm = 1 /\ ~calls[s].pinned
        /\ calls[s].tasks # <<>>

\* the step settles the call in slot s, suspended so far
Settles(s) ==
    /\ calls[s].pc \in {"fetch", "resign", "confirm", "enrich"}
    /\ calls'[s].pc \notin {"fetch", "resign", "confirm", "enrich"}

\* the step that settles the call in slot s returns, being the update of the
\* cache with the call's records and removals, or fails with the cache left
CompletesBy(s) ==
    \/ /\ calls'[s].pc = "done"
       /\ calls[s].pc = "enrich"
       /\ AllSettled(calls[s])
       /\ last' = Event("return", s)
       /\ CACHE' = updateCache(CACHE, extendedEmails(calls[s]), calls[s].addressesToRemove)
    \/ /\ calls'[s].pc = "failed"
       /\ last' = Event("throw", s)
       /\ CACHE' = CACHE

\* a step that writes the cache is the return of a call
WrittenByReturn == CACHE' # CACHE => \E s \in Procs : Settles(s) /\ calls'[s].pc = "done"

\* C20: if every collaborator call of a sync eventually responds, the sync
\* eventually completes, also when several calls overlap on the cache: a call
\* suspended at an await leads to the call having returned or failed; the
\* step that completes it either returns, being the one update of the cache
\* with the call's enriched records and removals, or fails and leaves the
\* cache as it is; and no other step writes the cache.
C20_Terminates ==
    /\ \A s \in Procs : (s \in InFlight) ~> (calls[s].pc \in {"done", "failed"})
    /\ [][WrittenByReturn /\ \A s \in Procs : Settles(s) => CompletesBy(s)]_vars

\* a call that went through both prompts and two key lookups has just
\* returned while another call is suspended at an await
C20_Witness ==
    \E s \in Procs :
        /\ JustReturned(s)
        /\ calls[s].nResign = 1
        /\ calls[s].nConfirm = 1
        /\ Len(calls[s].tasks) = 2
        /\ InFlight # {}

=============================================================================
